---------------------------- MODULE Spec2Model ----------------------------
(***************************************************************************)
(* Model of jsonschema-go: Generate turns a Go struct type into a JSON     *)
(* Schema document.  The program is a pure recursive transformation, so    *)
(* the state machine is "a call is pending" -> "the call has returned";    *)
(* the functions of the package are operators translated from the source.  *)
(*                                                                         *)
(* Go values of static type `any` are modelled as pairs <<dynamic type,    *)
(* value>>, as the Go runtime holds them: <<"string", s>>, <<"bool", b>>,  *)
(* <<"int", n>>, <<"float64", n, k>>, <<"[]string", seq>>,                 *)
(* <<"map", f>> (f a function from key strings to such values) and         *)
(* <<"nil">>.                                                              *)
(***************************************************************************)
EXTENDS Integers, Sequences, FiniteSets, TLC

VARIABLES
    pc,     \* "call": a call is pending; "done": it has returned
    fn,     \* the function of the package that is called
    args,   \* its arguments
    ret,    \* its results (<<"none">> while the call is pending)
    prev,   \* <<"returned", results of the call before>> when the call is a later one (else <<"none">>)
    stack   \* the activations of generateSchema, outermost first, while a call runs step by step

vars == <<pc, fn, args, ret, prev, stack>>

(***************************************************************************)
(* Bounds of the explored inputs.                                          *)
(***************************************************************************)
MaxFields == 2      \* fields of a generated record type
MaxDepth == 2       \* wrappers (pointer, slice, array, map) around a leaf type
MaxRotation == 2    \* starting points of the iteration over a map that are told apart

(***************************************************************************)
(* strings: the functions of package strings the code uses.  A Go string   *)
(* is a TLA+ string; SubSeq(s, i, j) is s[i-1:j].                          *)
(***************************************************************************)
Substr(s, i, j) == SubSeq(s, i, j)

HasPrefixAt(s, i, sub) == i + Len(sub) - 1 <= Len(s) /\ Substr(s, i, i + Len(sub) - 1) = sub

\* strings.Contains(s, substr)
Contains(s, substr) == \E i \in 1..(Len(s) + 1) : HasPrefixAt(s, i, substr)

\* strings.Index(s, sep) + 1 for a non-empty sep; 0 when sep does not occur
Index(s, sep) ==
    IF Contains(s, sep)
    THEN CHOOSE i \in 1..Len(s) : HasPrefixAt(s, i, sep) /\ \A j \in 1..(i - 1) : ~HasPrefixAt(s, j, sep)
    ELSE 0

RECURSIVE Split(_, _)
\* strings.Split(s, sep) for a non-empty sep
Split(s, sep) ==
    LET i == Index(s, sep) IN
    IF i = 0 THEN <<s>>
    ELSE <<Substr(s, 1, i - 1)>> \o Split(Substr(s, i + Len(sep), Len(s)), sep)

\* strings.SplitN(s, sep, 2)
SplitN2(s, sep) ==
    LET i == Index(s, sep) IN
    IF i = 0 THEN <<s>>
    ELSE <<Substr(s, 1, i - 1), Substr(s, i + Len(sep), Len(s))>>

\* unicode.IsSpace on the characters a tag can hold
IsSpace(c) == c \in {" ", "\t", "\n", "\r", "\f"}

RECURSIVE TrimLeft(_)
TrimLeft(s) ==
    IF Len(s) > 0 /\ IsSpace(Substr(s, 1, 1)) THEN TrimLeft(Substr(s, 2, Len(s))) ELSE s

RECURSIVE TrimRight(_)
TrimRight(s) ==
    IF Len(s) > 0 /\ IsSpace(Substr(s, Len(s), Len(s))) THEN TrimRight(Substr(s, 1, Len(s) - 1)) ELSE s

\* strings.TrimSpace(s)
TrimSpace(s) == TrimRight(TrimLeft(s))

(***************************************************************************)
(* strconv: Atoi and ParseFloat on decimal literals (optional sign,        *)
(* digits, for ParseFloat an optional '.'); every other text is a syntax   *)
(* error in Atoi.  No value given to ParseFloat below holds an exponent,   *)
(* hexadecimal, underscore, "inf" or "nan" literal, the other forms it     *)
(* accepts.                                                                *)
(* A float64 is <<"float64", n, k>> for n / 10^k with k minimal.           *)
(***************************************************************************)
DigitChars == "0123456789"

IsDigit(c) == \E d \in 1..10 : Substr(DigitChars, d, d) = c

DigitVal(c) == (CHOOSE d \in 1..10 : Substr(DigitChars, d, d) = c) - 1

AllDigits(s) == \A i \in 1..Len(s) : IsDigit(Substr(s, i, i))

RECURSIVE DigitsVal(_)
DigitsVal(s) ==
    IF Len(s) = 0 THEN 0
    ELSE 10 * DigitsVal(Substr(s, 1, Len(s) - 1)) + DigitVal(Substr(s, Len(s), Len(s)))

HasSign(s) == Len(s) > 0 /\ Substr(s, 1, 1) \in {"+", "-"}

Unsigned(s) == IF HasSign(s) THEN Substr(s, 2, Len(s)) ELSE s

SignOf(s) == IF HasSign(s) /\ Substr(s, 1, 1) = "-" THEN -1 ELSE 1

\* strconv.Atoi(s): [ok |-> err == nil, num |-> the int]
Atoi(s) ==
    LET u == Unsigned(s) IN
    IF Len(u) > 0 /\ AllDigits(u)
    THEN [ok |-> TRUE, num |-> <<"int", SignOf(s) * DigitsVal(u)>>]
    ELSE [ok |-> FALSE, num |-> <<"int", 0>>]

RECURSIVE Pow10(_)
Pow10(k) == IF k = 0 THEN 1 ELSE 10 * Pow10(k - 1)

RECURSIVE Float64(_, _)
\* the float64 n / 10^k
Float64(n, k) ==
    IF k > 0 /\ n % 10 = 0 THEN Float64(n \div 10, k - 1) ELSE <<"float64", n, k>>

\* strconv.ParseFloat(s, 64) on decimal literals (sign, digits, fraction):
\* [ok |-> err == nil, num |-> the float64].  The exponent, hexadecimal,
\* underscore, infinity and NaN forms ParseFloat also accepts are not among
\* the explored values.
ParseFloat(s) ==
    LET u == Unsigned(s)
        p == SplitN2(u, ".")
        ip == p[1]
        fp == IF Len(p) = 2 THEN p[2] ELSE ""
    IN  IF AllDigits(ip) /\ AllDigits(fp) /\ Len(ip) + Len(fp) > 0
        THEN [ok |-> TRUE,
              num |-> Float64(SignOf(s) * (DigitsVal(ip) * Pow10(Len(fp)) + DigitsVal(fp)), Len(fp))]
        ELSE [ok |-> FALSE, num |-> <<"float64", 0, 0>>]

(***************************************************************************)
(* map[string]any                                                          *)
(***************************************************************************)
NilMap == <<"nil">>

EmptyMap == <<"map", <<>>>>

IsMap(m) == m[1] = "map"

Keys(m) == DOMAIN m[2]

Has(m, k) == IsMap(m) /\ k \in Keys(m)

Get(m, k) == m[2][k]

\* m[k] = v
Put(m, k, v) == <<"map", [x \in Keys(m) \cup {k} |-> IF x = k THEN v ELSE m[2][x]]>>

String(s) == <<"string", s>>

Bool(b) == <<"bool", b>>

StringSlice(q) == <<"[]string", q>>

(***************************************************************************)
(* reflect: a Type is <<kind>> for a kind without element type,            *)
(* <<kind, elem>> for a pointer, slice or array, <<"Map", elem, key>> for  *)
(* a map and <<"Struct", fields>> for a struct, fields being the sequence  *)
(* of its StructFields in declaration order.  Kinds carry the names of the *)
(* reflect.Kind constants.                                                 *)
(***************************************************************************)
IntKinds == {"Int", "Int8", "Int16", "Int32", "Int64"}

UintKinds == {"Uint", "Uint8", "Uint16", "Uint32", "Uint64"}

FloatKinds == {"Float32", "Float64"}

\* the kinds of types that have no element type the code looks at
LeafKinds ==
    {"Bool", "String", "Uintptr", "Complex64", "Complex128", "Chan", "Func", "Interface",
     "UnsafePointer"} \cup IntKinds \cup UintKinds \cup FloatKinds

BasicType(k) == <<k>>

PtrTo(t) == <<"Ptr", t>>

SliceOf(t) == <<"Slice", t>>

ArrayOf(t) == <<"Array", t>>

MapOf(k, v) == <<"Map", v, k>>

StructOf(fields) == <<"Struct", fields>>

\* t.Kind()
Kind(t) == t[1]

\* t.Elem()
Elem(t) == t[2]

\* t.Key()
Key(t) == t[3]

\* t.NumField()
NumField(t) == Len(t[2])

\* t.Field(i), i counted from 1
Field(t, i) == t[2][i]

\* Kind.String()
KindString(k) ==
    CASE k = "Bool" -> "bool"
      [] k = "Int" -> "int"
      [] k = "Int8" -> "int8"
      [] k = "Int16" -> "int16"
      [] k = "Int32" -> "int32"
      [] k = "Int64" -> "int64"
      [] k = "Uint" -> "uint"
      [] k = "Uint8" -> "uint8"
      [] k = "Uint16" -> "uint16"
      [] k = "Uint32" -> "uint32"
      [] k = "Uint64" -> "uint64"
      [] k = "Uintptr" -> "uintptr"
      [] k = "Float32" -> "float32"
      [] k = "Float64" -> "float64"
      [] k = "Complex64" -> "complex64"
      [] k = "Complex128" -> "complex128"
      [] k = "Array" -> "array"
      [] k = "Chan" -> "chan"
      [] k = "Func" -> "func"
      [] k = "Interface" -> "interface"
      [] k = "Map" -> "map"
      [] k = "Ptr" -> "ptr"
      [] k = "Slice" -> "slice"
      [] k = "String" -> "string"
      [] k = "Struct" -> "struct"
      [] k = "UnsafePointer" -> "unsafe.Pointer"

\* a reflect.StructField: PkgPath is empty exactly for an exported field;
\* Tag maps the keys "json" and "validate" to their values ("" when absent)
StructField(name, exported, type, jsonTag, validateTag) ==
    [Name |-> name, PkgPath |-> IF exported THEN "" ELSE "main", Type |-> type,
     Tag |-> [json |-> jsonTag, validate |-> validateTag]]

\* field.IsExported()
IsExported(field) == field.PkgPath = ""

\* field.Tag.Get(key)
TagGet(field, key) == field.Tag[key]

\* an interface value: nil, or a value of the dynamic type t
NilValue == <<"nil">>

ValueOf(t) == <<"value", t>>

\* reflect.TypeOf(v) for a non-nil v
TypeOf(v) == v[2]

(***************************************************************************)
(* The constants of the package.                                           *)
(***************************************************************************)
TypeString == "string"
TypeInteger == "integer"
TypeNumber == "number"
TypeBoolean == "boolean"
TypeObject == "object"
TypeArray == "array"

PropType == "type"
PropProperties == "properties"
PropAdditionalProperties == "additionalProperties"
PropRequired == "required"
PropItems == "items"
PropMinimum == "minimum"
PropMaximum == "maximum"
PropExclusiveMinimum == "exclusiveMinimum"
PropExclusiveMaximum == "exclusiveMaximum"
PropMultipleOf == "multipleOf"
PropPattern == "pattern"
PropFormat == "format"
PropMinItems == "minItems"
PropMaxItems == "maxItems"

\* map[string]any{PropType: name}
TypeOnly(name) == Put(EmptyMap, PropType, String(name))

(***************************************************************************)
(* tags.go                                                                 *)
(***************************************************************************)
\* the loop over parts[1:] of parseJSONTag
OmitemptyIn(parts) == \E i \in 2..Len(parts) : TrimSpace(parts[i]) = "omitempty"

\* parseJSONTag without the "-" case
parseJSONTagNoSkip(tag) ==
    IF tag = "" THEN [name |-> "", omitempty |-> FALSE, skip |-> FALSE]
    ELSE LET parts == Split(tag, ",") IN
         [name |-> parts[1], omitempty |-> OmitemptyIn(parts), skip |-> FALSE]

parseJSONTag(tag) ==
    IF tag = "" THEN [name |-> "", omitempty |-> FALSE, skip |-> FALSE]
    ELSE IF tag = "-" THEN [name |-> "", omitempty |-> FALSE, skip |-> TRUE]
    ELSE LET parts == Split(tag, ",") IN
         [name |-> parts[1], omitempty |-> OmitemptyIn(parts), skip |-> FALSE]

validFormats ==
    {"date-time", "time", "date", "duration", "email", "hostname", "ipv4", "ipv6", "uuid"}

\* the switch on key storing a number whether or not it parsed
ApplyConstraintUnchecked(constraints, key, value) ==
    LET f == ParseFloat(value)
        n == Atoi(value)
        PutFloat(prop) == Put(constraints, prop, f.num)
        PutInt(prop) == Put(constraints, prop, n.num)
    IN  CASE key \in {"minimum", "min"} -> PutFloat(PropMinimum)
          [] key \in {"maximum", "max"} -> PutFloat(PropMaximum)
          [] key = "exclusiveMinimum" -> PutFloat(PropExclusiveMinimum)
          [] key = "exclusiveMaximum" -> PutFloat(PropExclusiveMaximum)
          [] key = "multipleOf" -> PutFloat(PropMultipleOf)
          [] key = "pattern" -> Put(constraints, PropPattern, String(value))
          [] key = "format" ->
                IF value \in validFormats THEN Put(constraints, PropFormat, String(value))
                ELSE constraints
          [] key = "minItems" -> PutInt(PropMinItems)
          [] key = "maxItems" -> PutInt(PropMaxItems)
          [] OTHER -> constraints

\* the switch on key storing a format without looking it up in validFormats
ApplyConstraintAnyFormat(constraints, key, value) ==
    LET f == ParseFloat(value)
        n == Atoi(value)
        PutFloat(prop) == IF f.ok THEN Put(constraints, prop, f.num) ELSE constraints
        PutInt(prop) == IF n.ok THEN Put(constraints, prop, n.num) ELSE constraints
    IN  CASE key \in {"minimum", "min"} -> PutFloat(PropMinimum)
          [] key \in {"maximum", "max"} -> PutFloat(PropMaximum)
          [] key = "exclusiveMinimum" -> PutFloat(PropExclusiveMinimum)
          [] key = "exclusiveMaximum" -> PutFloat(PropExclusiveMaximum)
          [] key = "multipleOf" -> PutFloat(PropMultipleOf)
          [] key = "pattern" -> Put(constraints, PropPattern, String(value))
          [] key = "format" -> Put(constraints, PropFormat, String(value))
          [] key = "minItems" -> PutInt(PropMinItems)
          [] key = "maxItems" -> PutInt(PropMaxItems)
          [] OTHER -> constraints

\* the switch on key of parseValidationTag: the constraints after one key=value part
ApplyConstraint(constraints, key, value) ==
    LET f == ParseFloat(value)
        n == Atoi(value)
        PutFloat(prop) == IF f.ok THEN Put(constraints, prop, f.num) ELSE constraints
        PutInt(prop) == IF n.ok THEN Put(constraints, prop, n.num) ELSE constraints
    IN  CASE key \in {"minimum", "min"} -> PutFloat(PropMinimum)
          [] key \in {"maximum", "max"} -> PutFloat(PropMaximum)
          [] key = "exclusiveMinimum" -> PutFloat(PropExclusiveMinimum)
          [] key = "exclusiveMaximum" -> PutFloat(PropExclusiveMaximum)
          [] key = "multipleOf" -> PutFloat(PropMultipleOf)
          [] key = "pattern" -> Put(constraints, PropPattern, String(value))
          [] key = "format" ->
                IF value \in validFormats THEN Put(constraints, PropFormat, String(value))
                ELSE constraints
          [] key = "minItems" -> PutInt(PropMinItems)
          [] key = "maxItems" -> PutInt(PropMaxItems)
          [] OTHER -> constraints

\* the body of the loop splitting a part on every '='
ApplyPartSplitAll(constraints, rawPart) ==
    LET part == TrimSpace(rawPart) IN
    IF part = "" THEN constraints
    ELSE IF Contains(part, "=")
         THEN LET kv == Split(part, "=") IN
              ApplyConstraint(constraints, TrimSpace(kv[1]), TrimSpace(kv[2]))
         ELSE constraints

\* the body of the loop over parts of parseValidationTag
ApplyPart(constraints, rawPart) ==
    LET part == TrimSpace(rawPart) IN
    IF part = "" THEN constraints
    ELSE IF Contains(part, "=")
         THEN LET kv == SplitN2(part, "=") IN
              ApplyConstraint(constraints, TrimSpace(kv[1]), TrimSpace(kv[2]))
         ELSE constraints

RECURSIVE ApplyParts(_, _, _)
\* the loop of parseValidationTag from part i on
ApplyParts(constraints, parts, i) ==
    IF i > Len(parts) THEN constraints
    ELSE ApplyParts(ApplyPart(constraints, parts[i]), parts, i + 1)

parseValidationTag(tag) ==
    IF tag = "" THEN EmptyMap
    ELSE ApplyParts(EmptyMap, Split(tag, ","), 1)

\* isRequiredField testing the required token before omitempty
isRequiredFieldRequiredFirst(field, omitempty, validationTag) ==
    IF Contains(validationTag, "required") THEN TRUE
    ELSE IF omitempty THEN FALSE
    ELSE IF ~Contains(validationTag, "omitempty") /\ Kind(field.Type) # "Ptr" THEN TRUE
    ELSE FALSE

isRequiredField(field, omitempty, validationTag) ==
    IF omitempty THEN FALSE
    ELSE IF Contains(validationTag, "required") THEN TRUE
    ELSE IF ~Contains(validationTag, "omitempty") /\ Kind(field.Type) # "Ptr" THEN TRUE
    ELSE FALSE

(***************************************************************************)
(* types.go and schema.go                                                  *)
(***************************************************************************)
\* getTypeSchema without the case of the unsigned kinds
getTypeSchemaNoUnsigned(t) ==
    CASE Kind(t) = "String" -> TypeOnly(TypeString)
      [] Kind(t) \in {"Int", "Int8", "Int16", "Int32", "Int64"} -> TypeOnly(TypeInteger)
      [] Kind(t) \in {"Float32", "Float64"} -> TypeOnly(TypeNumber)
      [] Kind(t) = "Bool" -> TypeOnly(TypeBoolean)
      [] OTHER -> NilMap

getTypeSchema(t) ==
    CASE Kind(t) = "String" -> TypeOnly(TypeString)
      [] Kind(t) \in {"Int", "Int8", "Int16", "Int32", "Int64"} -> TypeOnly(TypeInteger)
      [] Kind(t) \in {"Uint", "Uint8", "Uint16", "Uint32", "Uint64"} -> TypeOnly(TypeInteger)
      [] Kind(t) \in {"Float32", "Float64"} -> TypeOnly(TypeNumber)
      [] Kind(t) = "Bool" -> TypeOnly(TypeBoolean)
      [] OTHER -> NilMap

\* for key, value := range constraints { fieldSchema[key] = value }
\* the keys a constraint map can hold
ConstraintKeys ==
    <<PropMinimum, PropMaximum, PropExclusiveMinimum, PropExclusiveMaximum, PropMultipleOf,
      PropPattern, PropFormat, PropMinItems, PropMaxItems>>

\* the orders in which a range statement may yield the entries of a map, each
\* given as <<where the iteration starts, whether it runs backwards>>: the
\* language leaves the order open, and it can differ from one loop to the next
RangeOrders == (0..MaxRotation) \X BOOLEAN

\* the keys of m in the order o
RangeOrder(m, o) ==
    LET present == SelectSeq(ConstraintKeys, LAMBDA k : k \in Keys(m))
        n == Len(present)
        rotated == [i \in 1..n |-> present[((i - 1 + o[1]) % n) + 1]]
    IN  IF o[2] THEN [i \in 1..n |-> rotated[n + 1 - i]] ELSE rotated

RECURSIVE MergeFrom(_, _, _, _)
\* the loop over the entries of constraints from the i-th key of keys on
MergeFrom(fieldSchema, constraints, keys, i) ==
    IF i > Len(keys) THEN fieldSchema
    ELSE MergeFrom(Put(fieldSchema, keys[i], Get(constraints, keys[i])), constraints, keys, i + 1)

\* the loop leaving after the first entry
MergeConstraintsFirstOnly(fieldSchema, constraints, o) ==
    LET keys == RangeOrder(constraints, o) IN
    IF Len(keys) = 0 THEN fieldSchema
    ELSE Put(fieldSchema, keys[1], Get(constraints, keys[1]))

\* for key, value := range constraints { fieldSchema[key] = value }
MergeConstraints(fieldSchema, constraints, o) ==
    MergeFrom(fieldSchema, constraints, RangeOrder(constraints, o), 1)

\* the pointer step at the head of generateSchema
DerefOnce(t) == IF Kind(t) = "Ptr" THEN Elem(t) ELSE t

\* the constraints replacing the fragment instead of being merged into it
WithValidationReplacing(fieldSchema, validationTag, o) ==
    IF validationTag # "" THEN parseValidationTag(validationTag) ELSE fieldSchema

\* the fragment of a field after its validate tag is applied
WithValidation(fieldSchema, validationTag, o) ==
    IF validationTag # "" THEN MergeConstraints(fieldSchema, parseValidationTag(validationTag), o)
    ELSE fieldSchema

\* the declared name, whatever the json tag says
ResolveNameDeclared(jsonName, field) == field.Name

\* the name a field gets in properties and required
ResolveName(jsonName, field) == IF jsonName = "" THEN field.Name ELSE jsonName

RECURSIVE generateSchema(_, _)
RECURSIVE generateStructSchema(_, _)
RECURSIVE FieldLoop(_, _, _, _, _)

\* generateSchema without the test of the map's key kind
generateSchemaAnyKey(t0, o) ==
    LET t == DerefOnce(t0)
        basic == getTypeSchema(t)
    IN  IF basic # NilMap THEN basic
        ELSE IF Kind(t) = "Slice" \/ Kind(t) = "Array"
             THEN Put(TypeOnly(TypeArray), PropItems, generateSchema(Elem(t), o))
        ELSE IF Kind(t) = "Map"
             THEN Put(TypeOnly(TypeObject), PropAdditionalProperties, generateSchema(Elem(t), o))
        ELSE IF Kind(t) = "Struct" THEN generateStructSchema(t, o)
        ELSE TypeOnly(TypeObject)

generateSchema(t0, o) ==
    LET t == DerefOnce(t0)
        basic == getTypeSchema(t)
    IN  IF basic # NilMap THEN basic
        ELSE IF Kind(t) = "Slice" \/ Kind(t) = "Array"
             THEN Put(TypeOnly(TypeArray), PropItems, generateSchema(Elem(t), o))
        ELSE IF Kind(t) = "Map"
             THEN IF Kind(Key(t)) # "String" THEN TypeOnly(TypeObject)
                  ELSE Put(TypeOnly(TypeObject), PropAdditionalProperties, generateSchema(Elem(t), o))
        ELSE IF Kind(t) = "Struct" THEN generateStructSchema(t, o)
        ELSE TypeOnly(TypeObject)

\* the loop of generateStructSchema from field i on: the properties and the
\* required list once the last field is done
FieldLoop(t, i, props, required, o) ==
    IF i > NumField(t) THEN [props |-> props, required |-> required]
    ELSE LET field == Field(t, i) IN
         IF ~IsExported(field) THEN FieldLoop(t, i + 1, props, required, o)
         ELSE LET tag == parseJSONTag(TagGet(field, "json")) IN
              IF tag.skip THEN FieldLoop(t, i + 1, props, required, o)
              ELSE LET jsonName == ResolveName(tag.name, field)
                       validationTag == TagGet(field, "validate")
                       fieldSchema == WithValidation(generateSchema(field.Type, o), validationTag, o)
                       required2 == IF isRequiredField(field, tag.omitempty, validationTag)
                                    THEN Append(required, jsonName)
                                    ELSE required
                   IN  FieldLoop(t, i + 1, Put(props, jsonName, fieldSchema), required2, o)

\* generateStructSchema setting 'required' without the test of its length
generateStructSchemaAlwaysRequired(t, o) ==
    LET schema == Put(Put(TypeOnly(TypeObject), PropProperties, EmptyMap),
                      PropAdditionalProperties, Bool(FALSE))
        loop == FieldLoop(t, 1, Get(schema, PropProperties), <<>>, o)
        filled == Put(schema, PropProperties, loop.props)
    IN  Put(filled, PropRequired, StringSlice(loop.required))

generateStructSchema(t, o) ==
    LET schema == Put(Put(TypeOnly(TypeObject), PropProperties, EmptyMap),
                      PropAdditionalProperties, Bool(FALSE))
        loop == FieldLoop(t, 1, Get(schema, PropProperties), <<>>, o)
        filled == Put(schema, PropProperties, loop.props)
    IN  IF Len(loop.required) > 0
        THEN Put(filled, PropRequired, StringSlice(loop.required))
        ELSE filled

NoError == <<"nil">>

\* fmt.Errorf(message)
Errorf(message) == <<"error", message>>

RECURSIVE DerefAll(_)
DerefAll(t) == IF Kind(t) = "Ptr" THEN DerefAll(Elem(t)) ELSE t

\* the root type with every pointer level removed
RootTypeAllLevels(v) == DerefAll(TypeOf(v))

\* the root type with no pointer level removed
RootTypeNoDeref(v) == TypeOf(v)

\* the type Generate looks at: one pointer level removed
RootType(v) == LET t == TypeOf(v) IN IF Kind(t) = "Ptr" THEN Elem(t) ELSE t

Generate(v, o) ==
    IF v = NilValue
    THEN [schema |-> NilMap, err |-> Errorf("cannot generate schema from nil value")]
    ELSE LET t == RootType(v) IN
         IF Kind(t) # "Struct"
         THEN [schema |-> NilMap,
               err |-> Errorf("expected struct type, got " \o KindString(Kind(t)))]
         ELSE [schema |-> generateSchema(t, o), err |-> NoError]

(***************************************************************************)
(* The explored inputs.                                                    *)
(***************************************************************************)
\* declared names by field position: exported ones, unexported ones
ExportedNames == <<"A", "B", "C", "D">>
UnexportedNames == <<"a", "b", "c", "d">>

\* json tags: none, skip, a name, a name with omitempty, and the declared
\* name of the first field (so that two fields can resolve to one name)
JsonTags == {"", "-", "n", "n,omitempty", "A"}

\* validate tags of record fields
ValidateTags == {"", "required,min=1", "omitempty"}

\* validate tags isRequiredField is called with
RequiredTags ==
    {"", "required", "omitempty", "required,omitempty", "omitempty,required",
     "pattern=required", "min=1", "pattern=omitempty", "Required", "requiredness"}

StringType == BasicType("String")

EmptyStruct == StructOf(<<>>)

\* what a field declaration chooses besides its name: exported fields take
\* every combination of type and tags; unexported ones come bare and fully tagged
FieldChoices ==
    {[exported |-> TRUE, type |-> t, json |-> j, validate |-> v] :
        t \in {StringType, PtrTo(StringType)}, j \in JsonTags, v \in ValidateTags}
    \cup {[exported |-> FALSE, type |-> StringType, json |-> j, validate |-> v] :
        j \in {"", "n"}, v \in {"", "required,min=1"}}

\* the record type whose i-th field is declared as q[i]
RecordOf(q) ==
    StructOf([i \in 1..Len(q) |->
                StructField(IF q[i].exported THEN ExportedNames[i] ELSE UnexportedNames[i],
                            q[i].exported, q[i].type, q[i].json, q[i].validate)])

\* the types that wrap t once
Wrappers(t) == {PtrTo(t), SliceOf(t), ArrayOf(t), MapOf(StringType, t), MapOf(BasicType("Int"), t)}

RECURSIVE ShapeTypes(_)
\* every leaf kind and the empty record under up to d wrappers
ShapeTypes(d) ==
    IF d = 0 THEN {BasicType(k) : k \in LeafKinds} \cup {EmptyStruct}
    ELSE ShapeTypes(d - 1) \cup UNION {Wrappers(t) : t \in ShapeTypes(d - 1)}

\* the tags of the single field of a nesting record
NestJsonTags == {"", "n,omitempty", "-"}
NestValidateTags == {"", "required,min=1"}

RECURSIVE NestedTypes(_)
\* records nested in records, pointers, slices and maps, up to d levels
NestedTypes(d) ==
    IF d = 0 THEN {StringType, EmptyStruct}
    ELSE LET below == NestedTypes(d - 1) IN
         below \cup {PtrTo(t) : t \in below} \cup {SliceOf(t) : t \in below}
               \cup {MapOf(StringType, t) : t \in below}
               \cup {StructOf(<<StructField("A", TRUE, t, j, v)>>) :
                        t \in below, j \in NestJsonTags, v \in NestValidateTags}

\* the types generateSchema is called with
SchemaInputs == ShapeTypes(MaxDepth) \cup NestedTypes(MaxDepth)

\* the values Generate is called with, besides the records of up to MaxFields
\* fields of FieldChoices
GenerateInputs == {NilValue} \cup {ValueOf(t) : t \in SchemaInputs}

\* the arguments isRequiredField is called with
RequiredInputs ==
    {<<StructField("A", TRUE, t, "", v), o, v>> :
        t \in {StringType, PtrTo(StringType), PtrTo(PtrTo(StringType)), EmptyStruct,
               PtrTo(EmptyStruct), SliceOf(StringType)},
        o \in BOOLEAN, v \in RequiredTags}

\* the json tags parseJSONTag is called with
JSONTagInputs ==
    {"", "-", "n", "n,omitempty", ",omitempty", "n,string", "n,string,omitempty",
     "n, omitempty ", "n,omitempty,string", "n,Omitempty", "n,omitempty=1",
     "-,omitempty", "-,", " n", "n ", " n ,omitempty", " ", " -", " ,omitempty",
     "omitempty", "user name,omitempty"}

\* format values as <<written after 'format=', the same trimmed>>
FormatValues ==
    {<<v, v>> : v \in {"date-time", "time", "date", "duration", "email", "hostname",
                       "ipv4", "ipv6", "uuid", "bogus", "Email", "", "e-mail",
                       "date time", "datetime", "uuid4", "ip"}}
    \cup {<<" email ", "email">>, <<" uuid", "uuid">>, <<" bogus ", "bogus">>}

\* validate tags with one format token, alone and after a minimum token
FormatTags ==
    {"format=" \o v[1] : v \in FormatValues} \cup {"min=1,format=" \o v[1] : v \in FormatValues}
    \cup {"format=email,format=bogus", "format=bogus,format=email"}

\* validate tags with length tokens, as the tests and the README example write them
LengthTags ==
    {"required,minLength=1,maxLength=100", "minLength=3", "maxLength=5",
     "minLength=1,maximum=9"}

\* validate tags with a pattern token as <<tag, the text after the first '=' trimmed>>
PatternCases ==
    {<<"pattern=a=b", "a=b">>, <<"pattern=^k=v=w$", "^k=v=w$">>, <<"pattern==", "=">>,
     <<"pattern= x=y ", "x=y">>, <<"pattern = ^a$", "^a$">>, <<"pattern=", "">>,
     <<"pattern=^.+@.+$", "^.+@.+$">>,
     <<"pattern=^[a-z]+@[a-z]+\\.[a-z]+$", "^[a-z]+@[a-z]+\\.[a-z]+$">>,
     <<"required,pattern=^[a-zA-Z]+$", "^[a-zA-Z]+$">>,
     <<"omitempty,pattern=x==", "x==">>}

\* validate tags none of whose tokens holds '='
NoEqualsTags ==
    {"required", "omitempty", "required,omitempty", "pattern", "minimum", "format",
     "required, ,", ",", " ", "min 1"}

\* validate tags as <<tag, the constraints of its well-formed tokens>>: tokens
\* with an unknown key, an unparseable number or no '=' among well-formed ones
LenientCases ==
    {<<"foo=1", <<>> >>, <<"Minimum=1", <<>> >>, <<"=5", <<>> >>, <<"type=string", <<>> >>,
     <<"minimum=abc", <<>> >>, <<"min=", <<>> >>, <<"maximum=1.2.3", <<>> >>,
     <<"max=--1", <<>> >>, <<"exclusiveMinimum=x", <<>> >>, <<"exclusiveMaximum=1x", <<>> >>,
     <<"multipleOf=half", <<>> >>, <<"minItems=1.5", <<>> >>, <<"maxItems=ten", <<>> >>,
     <<"minItems=", <<>> >>, <<"maxItems=1e1", <<>> >>, <<"junk", <<>> >>,
     <<"minimum=1,foo=2,maximum=x,bar", [minimum |-> <<"float64", 1, 0>>] >>,
     <<"minItems=2,maxItems=x", [minItems |-> <<"int", 2>>] >>,
     <<"required,minimum=1,maximum=100",
       [minimum |-> <<"float64", 1, 0>>, maximum |-> <<"float64", 100, 0>>] >>,
     <<"minimum=0,maximum=150",
       [minimum |-> <<"float64", 0, 0>>, maximum |-> <<"float64", 150, 0>>] >>,
     <<"multipleOf=0.5,exclusiveMinimum=0,exclusiveMaximum=100",
       [multipleOf |-> <<"float64", 5, 1>>, exclusiveMinimum |-> <<"float64", 0, 0>>,
        exclusiveMaximum |-> <<"float64", 100, 0>>] >>,
     <<"minItems=1,maxItems=10", [minItems |-> <<"int", 1>>, maxItems |-> <<"int", 10>>] >>,
     <<"min=1,max=9", [minimum |-> <<"float64", 1, 0>>, maximum |-> <<"float64", 9, 0>>] >>,
     <<"minimum= 5 , maximum = 7", [minimum |-> <<"float64", 5, 0>>, maximum |-> <<"float64", 7, 0>>] >>,
     <<"minimum=-2.50", [minimum |-> <<"float64", -25, 1>>] >>,
     <<"minimum=1,minimum=x", [minimum |-> <<"float64", 1, 0>>] >>,
     <<"minimum=1,min=2", [minimum |-> <<"float64", 2, 0>>] >>,
     <<"maximum=+12.5,minItems=+3", [maximum |-> <<"float64", 125, 1>>, minItems |-> <<"int", 3>>] >>}

\* the validate tags parseValidationTag is called with
ValidationTagInputs ==
    {""} \cup FormatTags \cup LengthTags \cup {c[1] : c \in PatternCases}
         \cup NoEqualsTags \cup {c[1] : c \in LenientCases}

\* the records Generate is called with that have one untagged field of each
\* kind, bare or under wrappers
KindRecords ==
    {StructOf(<<StructField("A", TRUE, t, "", "")>>) : t \in ShapeTypes(MaxDepth - 1)}

\* the types of the fields that carry these tags
ConstrainedTypes ==
    {StringType, BasicType("Int"), BasicType("Float64"), SliceOf(StringType),
     PtrTo(StringType), EmptyStruct}

\* the records Generate is called with that have one field with such a tag
ConstrainedRecords ==
    {StructOf(<<StructField("A", TRUE, t, "", v)>>) :
        t \in ConstrainedTypes, v \in ValidationTagInputs}

(***************************************************************************)
(* The state machine: a call of one of the package's functions is pending  *)
(* (Init), then it returns.                                                *)
(***************************************************************************)
NoResult == <<"none">>

Init ==
    /\ pc = "call"
    /\ ret = NoResult
    /\ prev = NoResult
    /\ stack = <<>>
    /\ \/ fn = "Generate" /\ args \in {<<v>> : v \in GenerateInputs}
       \/ /\ fn = "Generate"
          /\ \E n \in 0..MaxFields : \E q \in [1..n -> FieldChoices] :
                args = <<ValueOf(RecordOf(q))>>
       \/ fn = "generateSchema" /\ args \in {<<t>> : t \in SchemaInputs}
       \/ fn = "isRequiredField" /\ args \in RequiredInputs
       \/ fn = "parseJSONTag" /\ args \in {<<tag>> : tag \in JSONTagInputs}
       \/ fn = "parseValidationTag" /\ args \in {<<tag>> : tag \in ValidationTagInputs}
       \/ fn = "Generate" /\ args \in {<<ValueOf(t)>> : t \in ConstrainedRecords}
       \/ fn = "Generate" /\ args \in {<<ValueOf(t)>> : t \in KindRecords}
       \/ fn = "Generate" /\ args \in {<<ValueOf(PtrTo(t))>> : t \in KindRecords}

CallGenerate ==
    /\ pc = "call" /\ fn = "Generate"
    /\ \E o \in RangeOrders : ret' = Generate(args[1], o)
    /\ pc' = "done"
    /\ UNCHANGED <<fn, args, prev, stack>>

\* a later call of Generate with a value of the same type
CallGenerateAgain ==
    /\ pc = "done" /\ fn = "Generate" /\ prev = NoResult
    /\ \E o \in RangeOrders : ret' = Generate(args[1], o)
    /\ prev' = <<"returned", ret>>
    /\ UNCHANGED <<pc, fn, args, stack>>

CallGenerateSchema ==
    /\ pc = "call" /\ fn = "generateSchema"
    /\ \E o \in RangeOrders : ret' = generateSchema(args[1], o)
    /\ pc' = "done"
    /\ UNCHANGED <<fn, args, prev, stack>>

CallIsRequiredField ==
    /\ pc = "call" /\ fn = "isRequiredField"
    /\ ret' = Bool(isRequiredField(args[1], args[2], args[3]))
    /\ pc' = "done"
    /\ UNCHANGED <<fn, args, prev, stack>>

CallParseJSONTag ==
    /\ pc = "call" /\ fn = "parseJSONTag"
    /\ ret' = parseJSONTag(args[1])
    /\ pc' = "done"
    /\ UNCHANGED <<fn, args, prev, stack>>

CallParseValidationTag ==
    /\ pc = "call" /\ fn = "parseValidationTag"
    /\ ret' = parseValidationTag(args[1])
    /\ pc' = "done"
    /\ UNCHANGED <<fn, args, prev, stack>>

Next ==
    \/ CallGenerate
    \/ CallGenerateAgain
    \/ CallGenerateSchema
    \/ CallIsRequiredField
    \/ CallParseJSONTag
    \/ CallParseValidationTag

Spec == Init /\ [][Next]_vars

Returned(f) == pc = "done" /\ fn = f

(***************************************************************************)
(* The recursion of generateSchema taken one call and one return at a      *)
(* time: stack holds one activation per call of generateSchema that has    *)
(* not returned, the work of generateStructSchema counted with the         *)
(* activation that called it.  Here a type can refer to a declared type,   *)
(* itself included, as reflect.Type values of recursive declarations do.   *)
(***************************************************************************)
Named(name) == <<"Named", name>>

\* the declared types of the explored programs
TypeDecls ==
    [Address |-> StructOf(<<StructField("Street", TRUE, StringType, "street", "required"),
                            StructField("City", TRUE, StringType, "city", "required")>>),
     User |-> StructOf(<<StructField("ID", TRUE, BasicType("Int"), "id", "required"),
                         StructField("Tags", TRUE, SliceOf(StringType), "tags", "required"),
                         StructField("Address", TRUE, Named("Address"), "address", ""),
                         StructField("Home", TRUE, PtrTo(Named("Address")), "home,omitempty", "")>>),
     Node |-> StructOf(<<StructField("Value", TRUE, StringType, "value", ""),
                         StructField("Next", TRUE, PtrTo(Named("Node")), "next,omitempty", "")>>),
     Tree |-> StructOf(<<StructField("Kids", TRUE, SliceOf(Named("Tree")), "", "")>>),
     Graph |-> StructOf(<<StructField("Edges", TRUE, MapOf(StringType, Named("Graph")), "", "")>>),
     Ping |-> StructOf(<<StructField("Pong", TRUE, PtrTo(Named("Pong")), "", "")>>),
     Pong |-> StructOf(<<StructField("Ping", TRUE, SliceOf(Named("Ping")), "", "")>>),
     Hidden |-> StructOf(<<StructField("next", FALSE, PtrTo(Named("Hidden")), "", ""),
                           StructField("Parent", TRUE, PtrTo(Named("Hidden")), "-", ""),
                           StructField("ByID", TRUE, MapOf(BasicType("Int"), Named("Hidden")), "", ""),
                           StructField("Name", TRUE, StringType, "", "")>>)]

\* the type a reflect.Type value stands for
Resolve(t) == IF t[1] = "Named" THEN TypeDecls[t[2]] ELSE t

\* the stack limit of the runtime in activations: above the depth of every
\* explored type that does not reach itself
StackLimit == MaxDepth + 3

RECURSIVE RecursionTypes(_)
\* records nested in records, pointers, slices, arrays and maps, up to d levels
RecursionTypes(d) ==
    IF d = 0 THEN {StringType, EmptyStruct}
    ELSE LET below == RecursionTypes(d - 1) IN
         below \cup {PtrTo(t) : t \in below} \cup {SliceOf(t) : t \in below}
               \cup {MapOf(StringType, t) : t \in below}
               \cup {StructOf(<<StructField("A", TRUE, t, tags[1], tags[2])>>) :
                        t \in below,
                        tags \in {<<"", "">>, <<"n,omitempty", "required">>, <<"-", "">>}}

\* the record types Generate is called with step by step
RecursionRoots ==
    {t \in RecursionTypes(MaxDepth) : t[1] = "Struct"}
    \cup {Named(n) : n \in DOMAIN TypeDecls}
    \cup {StructOf(<<StructField("A", TRUE, StringType, "", "required"),
                     StructField("B", TRUE, SliceOf(Named("User")), "", "")>>)}

\* a new activation of generateSchema(t0), past the pointer step at its head
Activation(t0) ==
    [t |-> Resolve(DerefOnce(Resolve(t0))), i |-> 1, props |-> EmptyMap, required |-> <<>>,
     part |-> NilMap]

RECURSIVE NextField(_, _)
\* the first field from position i on that the loop of generateStructSchema
\* does not pass over; NumField(t) + 1 when there is none
NextField(t, i) ==
    IF i > NumField(t) THEN i
    ELSE IF ~IsExported(Field(t, i)) \/ parseJSONTag(TagGet(Field(t, i), "json")).skip
         THEN NextField(t, i + 1)
         ELSE i

\* the activation a stands before a call of generateSchema
HasCall(a) ==
    /\ getTypeSchema(a.t) = NilMap
    /\ \/ Kind(a.t) \in {"Slice", "Array"} /\ a.i = 1
       \/ Kind(a.t) = "Map" /\ Kind(Key(a.t)) = "String" /\ a.i = 1
       \/ Kind(a.t) = "Struct" /\ NextField(a.t, a.i) <= NumField(a.t)

\* the argument of that call passing the type itself instead of its element
CalleeOfSelf(a) ==
    IF Kind(a.t) = "Struct" THEN Field(a.t, NextField(a.t, a.i)).Type ELSE a.t

\* the argument of that call
Callee(a) ==
    IF Kind(a.t) = "Struct" THEN Field(a.t, NextField(a.t, a.i)).Type ELSE Elem(a.t)

\* the activation a waiting for that call to return
Calling(a) == IF Kind(a.t) = "Struct" THEN [a EXCEPT !.i = NextField(a.t, a.i)] ELSE a

\* the activation a after the call it waited for returned the fragment r
Absorb(a, r, o) ==
    IF Kind(a.t) \in {"Slice", "Array"}
    THEN [a EXCEPT !.part = Put(TypeOnly(TypeArray), PropItems, r), !.i = 2]
    ELSE IF Kind(a.t) = "Map"
    THEN [a EXCEPT !.part = Put(TypeOnly(TypeObject), PropAdditionalProperties, r), !.i = 2]
    ELSE LET field == Field(a.t, a.i)
             tag == parseJSONTag(TagGet(field, "json"))
             jsonName == ResolveName(tag.name, field)
             validationTag == TagGet(field, "validate")
             fieldSchema == WithValidation(r, validationTag, o)
         IN  [a EXCEPT !.props = Put(a.props, jsonName, fieldSchema),
                       !.required = IF isRequiredField(field, tag.omitempty, validationTag)
                                    THEN Append(a.required, jsonName)
                                    ELSE a.required,
                       !.i = a.i + 1]

\* the fragment the activation a returns once it has no call left
Result(a) ==
    LET basic == getTypeSchema(a.t) IN
    IF basic # NilMap THEN basic
    ELSE IF Kind(a.t) \in {"Slice", "Array"} THEN a.part
    ELSE IF Kind(a.t) = "Map"
         THEN IF Kind(Key(a.t)) # "String" THEN TypeOnly(TypeObject) ELSE a.part
    ELSE IF Kind(a.t) = "Struct"
         THEN LET filled == Put(Put(Put(TypeOnly(TypeObject), PropProperties, EmptyMap),
                                    PropAdditionalProperties, Bool(FALSE)),
                                PropProperties, a.props)
              IN  IF Len(a.required) > 0
                  THEN Put(filled, PropRequired, StringSlice(a.required))
                  ELSE filled
    ELSE TypeOnly(TypeObject)

InitRecursion ==
    /\ pc = "call"
    /\ fn = "Generate"
    /\ args \in {<<ValueOf(t)>> : t \in RecursionRoots}
                   \cup {<<ValueOf(PtrTo(t))>> : t \in RecursionRoots}
                   \cup {<<NilValue>>, <<ValueOf(SliceOf(Named("Node")))>>}
    /\ ret = NoResult
    /\ prev = NoResult
    /\ stack = <<>>

\* Generate up to its call of generateSchema
EnterGenerate ==
    /\ pc = "call" /\ fn = "Generate"
    /\ IF args[1] = NilValue
       THEN /\ ret' = [schema |-> NilMap, err |-> Errorf("cannot generate schema from nil value")]
            /\ pc' = "done"
            /\ stack' = <<>>
       ELSE LET t == Resolve(RootType(args[1])) IN
            IF Kind(t) # "Struct"
            THEN /\ ret' = [schema |-> NilMap,
                            err |-> Errorf("expected struct type, got " \o KindString(Kind(t)))]
                 /\ pc' = "done"
                 /\ stack' = <<>>
            ELSE /\ stack' = <<Activation(t)>>
                 /\ pc' = "run"
                 /\ ret' = ret
    /\ UNCHANGED <<fn, args, prev>>

\* the innermost activation calls generateSchema
CallNested ==
    /\ pc = "run"
    /\ HasCall(stack[Len(stack)])
    /\ Len(stack) < StackLimit
    /\ stack' = [stack EXCEPT ![Len(stack)] = Calling(@)] \o <<Activation(Callee(stack[Len(stack)]))>>
    /\ UNCHANGED <<pc, fn, args, ret, prev>>

\* the call does not fit the stack: the runtime ends the program
StackOverflow ==
    /\ pc = "run"
    /\ HasCall(stack[Len(stack)])
    /\ Len(stack) >= StackLimit
    /\ pc' = "overflow"
    /\ UNCHANGED <<fn, args, ret, prev, stack>>

\* the innermost activation returns to the activation that called it
ReturnNested ==
    /\ pc = "run"
    /\ Len(stack) > 1
    /\ ~HasCall(stack[Len(stack)])
    /\ \E o \in RangeOrders :
          stack' = SubSeq(stack, 1, Len(stack) - 2)
                      \o <<Absorb(stack[Len(stack) - 1], Result(stack[Len(stack)]), o)>>
    /\ UNCHANGED <<pc, fn, args, ret, prev>>

\* the outermost activation returns to Generate, which returns
ReturnGenerate ==
    /\ pc = "run"
    /\ Len(stack) = 1
    /\ ~HasCall(stack[1])
    /\ ret' = [schema |-> Result(stack[1]), err |-> NoError]
    /\ pc' = "done"
    /\ stack' = <<>>
    /\ UNCHANGED <<fn, args, prev>>

NextRecursion ==
    \/ EnterGenerate
    \/ CallNested
    \/ StackOverflow
    \/ ReturnNested
    \/ ReturnGenerate

\* a call that can take a step takes it: nothing but the program itself runs
SpecRecursion == InitRecursion /\ [][NextRecursion]_vars /\ WF_vars(NextRecursion)

(***************************************************************************)
(* What the claims speak of, stated without the operators above: the tags  *)
(* of the explored inputs are classified by hand.                          *)
(***************************************************************************)
\* the validate tags that hold the substring "required"
TagsWithRequired ==
    {"required", "required,min=1", "required,omitempty", "omitempty,required",
     "pattern=required", "requiredness", "required, ,",
     "required,minLength=1,maxLength=100", "required,pattern=^[a-zA-Z]+$",
     "required,minimum=1,maximum=100"}

\* the validate tags that hold the substring "omitempty"
TagsWithOmitempty ==
    {"omitempty", "required,omitempty", "omitempty,required", "pattern=omitempty",
     "omitempty,pattern=x=="}

\* the json tags whose directive has omitWhenEmpty
TagsOmitWhenEmpty == {"n,omitempty"}

\* the exposedName of a json tag
ExposedName(jsonTag) ==
    CASE jsonTag \in {"n", "n,omitempty"} -> "n"
      [] jsonTag = "A" -> "A"
      [] jsonTag \in {"", "-"} -> ""

\* the field is exported and not skipped
Contributes(f) == f.PkgPath = "" /\ f.Tag.json # "-"

\* the resolved property name of a field
ResolvedName(f) == IF ExposedName(f.Tag.json) # "" THEN ExposedName(f.Tag.json) ELSE f.Name

\* the requiredness policy on (omitWhenEmpty, validation annotation, pointer type)
Policy(omit, validationTag, isPointer) ==
    /\ ~omit
    /\ \/ validationTag \in TagsWithRequired
       \/ validationTag \notin TagsWithOmitempty /\ ~isPointer

PolicyOfField(f) ==
    Policy(f.Tag.json \in TagsOmitWhenEmpty, f.Tag.validate, f.Type[1] = "Ptr")

IsRecord(t) == t[1] = "Struct"

FieldsOf(t) == t[2]

\* the record type Generate is called with, when it is called with a record value
CalledWithRecord == fn = "Generate" /\ args[1] # NilValue /\ IsRecord(args[1][2])

\* the 'required' list of an object schema, empty when the key is absent
RequiredList(schema) ==
    IF PropRequired \in DOMAIN schema[2] THEN schema[2][PropRequired][2] ELSE <<>>

InSeq(x, q) == \E i \in 1..Len(q) : q[i] = x

\* C1 (as stated): isRequiredField follows the precedence omitWhenEmpty, then
\* "required" in the annotation, then neither "omitempty" nor a pointer type;
\* and the name of every exported, non-skipped field of a record is in the
\* 'required' list exactly when the policy yields required for that field.
C1_AsStated ==
    /\ Returned("isRequiredField") =>
          ret = Bool(Policy(args[2], args[3], args[1].Type[1] = "Ptr"))
    /\ (pc = "done" /\ CalledWithRecord) =>
          \A i \in 1..Len(FieldsOf(args[1][2])) :
             LET f == FieldsOf(args[1][2])[i] IN
             Contributes(f) =>
                (InSeq(ResolvedName(f), RequiredList(ret.schema)) <=> PolicyOfField(f))

\* C1 (amended): the same precedence; the name of an exported, non-skipped
\* field is in the 'required' list exactly when the policy yields required for
\* some exported, non-skipped field of the record that resolves to that name.
C1_RequiredPolicy ==
    /\ Returned("isRequiredField") =>
          ret = Bool(Policy(args[2], args[3], args[1].Type[1] = "Ptr"))
    /\ (pc = "done" /\ CalledWithRecord) =>
          LET fields == FieldsOf(args[1][2]) IN
          \A i \in 1..Len(fields) :
             Contributes(fields[i]) =>
                (InSeq(ResolvedName(fields[i]), RequiredList(ret.schema))
                   <=> \E j \in 1..Len(fields) :
                          /\ Contributes(fields[j])
                          /\ ResolvedName(fields[j]) = ResolvedName(fields[i])
                          /\ PolicyOfField(fields[j]))

\* omission has won over an explicit required token, and a required token over a pointer
C1_Witness ==
    /\ pc = "done" /\ CalledWithRecord
    /\ \E i \in 1..Len(FieldsOf(args[1][2])) :
          LET f == FieldsOf(args[1][2])[i] IN
          /\ Contributes(f) /\ f.Tag.json = "n,omitempty" /\ f.Tag.validate = "required,min=1"
          /\ ~InSeq("n", RequiredList(ret.schema))
    /\ \E i \in 1..Len(FieldsOf(args[1][2])) :
          LET f == FieldsOf(args[1][2])[i] IN
          /\ Contributes(f) /\ f.Type[1] = "Ptr" /\ f.Tag.validate = "required,min=1"
          /\ InSeq(ResolvedName(f), RequiredList(ret.schema))

\* the kind Generate judges: that of the argument's type, one pointer level removed
KindAfterOneDeref(v) == IF v[2][1] = "Ptr" THEN v[2][2][1] ELSE v[2][1]

\* Generate must reject the value: nil, or not a record after one dereference
Rejected(v) == v = NilValue \/ KindAfterOneDeref(v) # "Struct"

\* C2: Generate returns an error and a nil document exactly when its argument
\* is nil or is not a record after at most one pointer dereference; the
\* message then names the kind found after that dereference; otherwise it
\* returns a document and a nil error.
C2_RejectsNonRecords ==
    Returned("Generate") =>
       /\ Rejected(args[1]) <=> ret.err # NoError
       /\ Rejected(args[1]) <=> ret.schema = NilMap
       /\ ~Rejected(args[1]) => ret.schema[1] = "map"
       /\ (Rejected(args[1]) /\ args[1] # NilValue) =>
             ret.err = <<"error", "expected struct type, got "
                                     \o KindString(KindAfterOneDeref(args[1]))>>

\* a pointer to a pointer to a record was rejected, the message naming "ptr"
C2_Witness ==
    /\ Returned("Generate")
    /\ args[1] = ValueOf(PtrTo(PtrTo(EmptyStruct)))
    /\ ret.schema = NilMap
    /\ ret.err = <<"error", "expected struct type, got ptr">>

RECURSIVE NamesOfRequired(_, _)
\* the resolved names of the fields of q from position i on that the policy
\* makes required, in declaration order
NamesOfRequired(q, i) ==
    IF i > Len(q) THEN <<>>
    ELSE IF Contributes(q[i]) /\ PolicyOfField(q[i])
         THEN <<ResolvedName(q[i])>> \o NamesOfRequired(q, i + 1)
         ELSE NamesOfRequired(q, i + 1)

\* the field that gives the property called name its fragment: the last
\* contributing one that resolves to it
DefiningFields(t, name) ==
    {i \in 1..Len(FieldsOf(t)) :
        /\ Contributes(FieldsOf(t)[i]) /\ ResolvedName(FieldsOf(t)[i]) = name
        /\ \A j \in (i + 1)..Len(FieldsOf(t)) :
              ~(Contributes(FieldsOf(t)[j]) /\ ResolvedName(FieldsOf(t)[j]) = name)}

RECURSIVE RecordFragments(_, _)
\* the pairs <<record type, fragment>> of every fragment of the document frag,
\* generated for the type t0, that was built from a record type
RecordFragments(t0, frag) ==
    LET t == IF t0[1] = "Ptr" THEN t0[2] ELSE t0
        has(k) == frag[1] = "map" /\ k \in DOMAIN frag[2]
    IN  CASE t[1] = "Struct" ->
                {<<t, frag>>} \cup
                (IF has(PropProperties) /\ frag[2][PropProperties][1] = "map"
                 THEN UNION {UNION {RecordFragments(FieldsOf(t)[i].Type,
                                                    frag[2][PropProperties][2][name]) :
                                       i \in DefiningFields(t, name)} :
                                name \in DOMAIN frag[2][PropProperties][2]}
                 ELSE {})
          [] t[1] \in {"Slice", "Array"} ->
                IF has(PropItems) THEN RecordFragments(t[2], frag[2][PropItems]) ELSE {}
          [] t[1] = "Map" /\ t[3][1] = "String" ->
                IF has(PropAdditionalProperties)
                THEN RecordFragments(t[2], frag[2][PropAdditionalProperties])
                ELSE {}
          [] OTHER -> {}

\* a document has been returned for a type: by Generate or by generateSchema
Documented == pc = "done" /\ (CalledWithRecord \/ fn = "generateSchema")

\* the type the returned document was generated for
DocumentType == IF fn = "Generate" THEN args[1][2] ELSE args[1]

\* the returned document
Document == IF fn = "Generate" THEN ret.schema ELSE ret

\* the record fragments of the returned document
ReturnedRecords == RecordFragments(DocumentType, Document)

\* C3: in every object schema built from a record type, root or nested, the
\* 'required' key is present exactly when some field is required; it is then
\* the non-empty list of the resolved names of the required fields in
\* declaration order.  An empty 'required' list is never emitted.
C3_RequiredKey ==
    Documented =>
       \A p \in ReturnedRecords :
          LET expected == NamesOfRequired(FieldsOf(p[1]), 1) IN
          /\ (PropRequired \in DOMAIN p[2][2]) <=> expected # <<>>
          /\ (PropRequired \in DOMAIN p[2][2]) =>
                /\ p[2][2][PropRequired] = <<"[]string", expected>>
                /\ Len(p[2][2][PropRequired][2]) > 0

\* a nested record without required field has no 'required' key, in a root
\* record that has one
C3_Witness ==
    /\ Documented
    /\ \E p \in ReturnedRecords, r \in ReturnedRecords :
          /\ p[1] # r[1]
          /\ Len(FieldsOf(p[1])) > 0 /\ PropRequired \notin DOMAIN p[2][2]
          /\ PropRequired \in DOMAIN r[2][2]

\* two required fields are listed in declaration order
C3_WitnessOrder ==
    /\ Documented
    /\ \E p \in ReturnedRecords : RequiredList(p[2]) = <<"n", "B">>

\* C4: every fragment built from a record type, at the root and at every
\* nesting depth, also when constraints of a validation annotation were merged
\* into it, has type "object", a 'properties' mapping and additionalProperties
\* equal to the boolean false.
C4_ObjectShape ==
    Documented =>
       \A p \in ReturnedRecords :
          /\ p[2][1] = "map"
          /\ {PropType, PropProperties, PropAdditionalProperties} \subseteq DOMAIN p[2][2]
          /\ p[2][2][PropType] = <<"string", "object">>
          /\ p[2][2][PropProperties][1] = "map"
          /\ p[2][2][PropAdditionalProperties] = <<"bool", FALSE>>

\* a nested record fragment carries a merged constraint, and a record without
\* exported fields has empty properties
C4_Witness ==
    /\ Documented
    /\ \E p \in ReturnedRecords :
          /\ p[1] # DocumentType
          /\ PropMinimum \in DOMAIN p[2][2]
          /\ p[2][2][PropProperties] = <<"map", <<>>>>
          /\ p[2][2][PropAdditionalProperties] = <<"bool", FALSE>>

\* the keys of 'properties' of an object schema
PropertyNames(schema) ==
    IF PropProperties \in DOMAIN schema[2] THEN DOMAIN schema[2][PropProperties][2] ELSE {}

IsSkipped(f) == f.Tag.json = "-"

\* some exported, non-skipped field of the record resolves to name
SomeFieldResolvesTo(t, name) ==
    \E j \in 1..Len(FieldsOf(t)) :
       Contributes(FieldsOf(t)[j]) /\ ResolvedName(FieldsOf(t)[j]) = name

\* some required field of the record resolves to name
SomeRequiredResolvesTo(t, name) ==
    \E j \in 1..Len(FieldsOf(t)) :
       /\ Contributes(FieldsOf(t)[j]) /\ ResolvedName(FieldsOf(t)[j]) = name
       /\ PolicyOfField(FieldsOf(t)[j])

\* the record type without its skipped fields
WithoutSkipped(t) == <<"Struct", SelectSeq(FieldsOf(t), LAMBDA f : ~IsSkipped(f))>>

\* C5 (as stated): the declared name of a field whose json tag is "-" appears
\* neither in 'properties' nor in 'required' of the record's schema.
C5_AsStated ==
    Documented =>
       \A p \in ReturnedRecords : \A i \in 1..Len(FieldsOf(p[1])) :
          IsSkipped(FieldsOf(p[1])[i]) =>
             /\ FieldsOf(p[1])[i].Name \notin PropertyNames(p[2])
             /\ ~InSeq(FieldsOf(p[1])[i].Name, RequiredList(p[2]))

\* C5 (amended): a field whose json tag is "-" contributes nothing: the
\* document is the one generated for the record without its skipped fields,
\* and the declared name of a skipped field is in 'properties' (in 'required')
\* only when another exported, non-skipped (and required) field resolves to it.
C5_SkipLaw ==
    /\ (pc = "done" /\ CalledWithRecord) =>
          \A o \in RangeOrders : ret = Generate(<<"value", WithoutSkipped(args[1][2])>>, o)
    /\ Documented =>
          \A p \in ReturnedRecords : \A i \in 1..Len(FieldsOf(p[1])) :
             IsSkipped(FieldsOf(p[1])[i]) =>
                /\ FieldsOf(p[1])[i].Name \in PropertyNames(p[2])
                      => SomeFieldResolvesTo(p[1], FieldsOf(p[1])[i].Name)
                /\ InSeq(FieldsOf(p[1])[i].Name, RequiredList(p[2]))
                      => SomeRequiredResolvesTo(p[1], FieldsOf(p[1])[i].Name)

\* a skipped field with a required annotation left no trace beside a field that did
C5_Witness ==
    /\ pc = "done" /\ CalledWithRecord
    /\ Len(FieldsOf(args[1][2])) = 2
    /\ IsSkipped(FieldsOf(args[1][2])[1])
    /\ FieldsOf(args[1][2])[1].PkgPath = ""
    /\ FieldsOf(args[1][2])[1].Tag.validate = "required,min=1"
    /\ PropertyNames(ret.schema) = {"B"}
    /\ RequiredList(ret.schema) = <<"B">>

\* C6: the keys of 'properties' are the resolved names of the exported fields
\* whose json tag is not "-": the exposedName when it is not empty, else the
\* declared name; unexported fields give no key, whatever their annotations.
C6_PropertyNames ==
    Documented =>
       \A p \in ReturnedRecords :
          PropertyNames(p[2]) =
             {ResolvedName(FieldsOf(p[1])[i]) :
                 i \in {j \in 1..Len(FieldsOf(p[1])) : Contributes(FieldsOf(p[1])[j])}}

\* an unexported field tagged with a name gave no key; an exposedName and a
\* declared name did
C6_Witness ==
    /\ pc = "done" /\ CalledWithRecord
    /\ \E i \in 1..Len(FieldsOf(args[1][2])) :
          /\ FieldsOf(args[1][2])[i].PkgPath # ""
          /\ FieldsOf(args[1][2])[i].Tag.json = "n"
    /\ PropertyNames(ret.schema) = {"B"}

C6_WitnessNames ==
    /\ pc = "done" /\ CalledWithRecord
    /\ PropertyNames(ret.schema) = {"n", "B"}

\* Generate is called with a pointer to a record
CalledWithRecordPointer ==
    fn = "Generate" /\ args[1] # NilValue /\ args[1][2][1] = "Ptr" /\ IsRecord(args[1][2][2])

\* C7: for every record type R, Generate on a pointer to an R value returns the
\* document it returns for an R value, and neither call returns an error.
C7_PointerToRecord ==
    /\ (pc = "done" /\ CalledWithRecord) =>
          /\ ret.err = NoError
          /\ \A o \in RangeOrders : Generate(<<"value", <<"Ptr", args[1][2]>>>>, o) = ret
    /\ (pc = "done" /\ CalledWithRecordPointer) =>
          /\ ret.err = NoError
          /\ \A o \in RangeOrders : Generate(<<"value", args[1][2][2]>>, o) = ret

\* Generate returned a document with a property for a pointer to a record
C7_Witness ==
    /\ pc = "done" /\ CalledWithRecordPointer
    /\ ret.err = NoError
    /\ PropertyNames(ret.schema) # {}

\* C8 (as stated): for every type T, also a pointer type, generateSchema gives
\* pointer-to-T the fragment it gives T.
C8_PointerTransparent ==
    Returned("generateSchema") =>
       \A o \in RangeOrders : generateSchema(<<"Ptr", args[1]>>, o) = ret

\* the one-key fragment {type: name}
OnlyType(name) == <<"map", [type |-> <<"string", name>>]>>

\* generateSchema has returned for a type of kind k that has no element type
ReturnedForKind(k) == Returned("generateSchema") /\ args[1] = <<k>>

\* C9 (as stated): every primitive kind gives exactly {type: X}: "string" for
\* String, "integer" for every signed or unsigned integer kind, Uintptr
\* among them, "number" for the float kinds, "boolean" for Bool.
C9_AsStated ==
    /\ ReturnedForKind("String") => ret = OnlyType("string")
    /\ \A k \in {"Int", "Int8", "Int16", "Int32", "Int64",
                 "Uint", "Uint8", "Uint16", "Uint32", "Uint64", "Uintptr"} :
          ReturnedForKind(k) => ret = OnlyType("integer")
    /\ \A k \in {"Float32", "Float64"} : ReturnedForKind(k) => ret = OnlyType("number")
    /\ ReturnedForKind("Bool") => ret = OnlyType("boolean")

\* C9 (amended): the same for String, the kinds Int, Int8, Int16, Int32, Int64,
\* Uint, Uint8, Uint16, Uint32, Uint64, the float kinds and Bool; Uintptr is no
\* primitive kind of the table and gives the fallback {type: "object"}.
C9_PrimitiveTable ==
    /\ ReturnedForKind("String") => ret = OnlyType("string")
    /\ \A k \in {"Int", "Int8", "Int16", "Int32", "Int64",
                 "Uint", "Uint8", "Uint16", "Uint32", "Uint64"} :
          ReturnedForKind(k) => ret = OnlyType("integer")
    /\ \A k \in {"Float32", "Float64"} : ReturnedForKind(k) => ret = OnlyType("number")
    /\ ReturnedForKind("Bool") => ret = OnlyType("boolean")
    /\ ReturnedForKind("Uintptr") => ret = OnlyType("object")

\* an unsigned kind got exactly {type: "integer"}
C9_Witness == ReturnedForKind("Uint16") /\ ret = OnlyType("integer")

\* C10: a slice or array of E gives exactly {type: "array", items: shape(E)}; a
\* map with string key and value V exactly {type: "object",
\* additionalProperties: shape(V)}; a map with another key exactly
\* {type: "object"}; every other kind that is no record and no primitive
\* exactly {type: "object"}; shape(E) being the fragment of E, at every depth.
C10_CompositeShapes ==
    Returned("generateSchema") =>
       LET t == args[1] IN
       /\ t[1] \in {"Slice", "Array"} =>
             \A o \in RangeOrders :
                ret = <<"map", [type |-> <<"string", "array">>,
                                items |-> generateSchema(t[2], o)]>>
       /\ (t[1] = "Map" /\ t[3][1] = "String") =>
             \A o \in RangeOrders :
                ret = <<"map", [type |-> <<"string", "object">>,
                                additionalProperties |-> generateSchema(t[2], o)]>>
       /\ (t[1] = "Map" /\ t[3][1] # "String") => ret = OnlyType("object")
       /\ t[1] \in {"Func", "Chan", "Interface", "Complex64", "Complex128",
                    "UnsafePointer", "Uintptr"} => ret = OnlyType("object")

\* a slice of string-keyed maps of channels got the nested fragment
C10_Witness ==
    /\ Returned("generateSchema")
    /\ args[1] = <<"Slice", <<"Map", <<"Chan">>, <<"String">>>>>>
    /\ ret = <<"map", [type |-> <<"string", "array">>,
                       items |-> <<"map", [type |-> <<"string", "object">>,
                                           additionalProperties |-> OnlyType("object")]>>]>>

(***************************************************************************)
(* C11: the reference behaviour of parseJSONTag.  The segments of the      *)
(* explored tags are written out by hand, each with its text after         *)
(* trimming, so that the reference does not use Split or TrimSpace.        *)
(***************************************************************************)
\* tag |-> its comma-separated segments as <<text, trimmed text>>
JSONTagSegments ==
    [tag \in JSONTagInputs |->
        CASE tag = "" -> << <<"", "">> >>
          [] tag = "-" -> << <<"-", "-">> >>
          [] tag = "n" -> << <<"n", "n">> >>
          [] tag = "n,omitempty" -> << <<"n", "n">>, <<"omitempty", "omitempty">> >>
          [] tag = ",omitempty" -> << <<"", "">>, <<"omitempty", "omitempty">> >>
          [] tag = "n,string" -> << <<"n", "n">>, <<"string", "string">> >>
          [] tag = "n,string,omitempty" ->
                << <<"n", "n">>, <<"string", "string">>, <<"omitempty", "omitempty">> >>
          [] tag = "n, omitempty " -> << <<"n", "n">>, <<" omitempty ", "omitempty">> >>
          [] tag = "n,omitempty,string" ->
                << <<"n", "n">>, <<"omitempty", "omitempty">>, <<"string", "string">> >>
          [] tag = "n,Omitempty" -> << <<"n", "n">>, <<"Omitempty", "Omitempty">> >>
          [] tag = "n,omitempty=1" -> << <<"n", "n">>, <<"omitempty=1", "omitempty=1">> >>
          [] tag = "-,omitempty" -> << <<"-", "-">>, <<"omitempty", "omitempty">> >>
          [] tag = "-," -> << <<"-", "-">>, <<"", "">> >>
          [] tag = " n" -> << <<" n", "n">> >>
          [] tag = "n " -> << <<"n ", "n">> >>
          [] tag = " n ,omitempty" -> << <<" n ", "n">>, <<"omitempty", "omitempty">> >>
          [] tag = " " -> << <<" ", "">> >>
          [] tag = " -" -> << <<" -", "-">> >>
          [] tag = " ,omitempty" -> << <<" ", "">>, <<"omitempty", "omitempty">> >>
          [] tag = "omitempty" -> << <<"omitempty", "omitempty">> >>
          [] tag = "user name,omitempty" ->
                << <<"user name", "user name">>, <<"omitempty", "omitempty">> >>]

\* some segment after the first is 'omitempty' once trimmed
LaterOmitempty(tag) ==
    \E i \in 2..Len(JSONTagSegments[tag]) : JSONTagSegments[tag][i][2] = "omitempty"

\* the reference result, the name being the first segment trimmed
ReferenceJSONTag(tag) ==
    IF tag = "" THEN [name |-> "", omitempty |-> FALSE, skip |-> FALSE]
    ELSE IF tag = "-" THEN [name |-> "", omitempty |-> FALSE, skip |-> TRUE]
    ELSE [name |-> JSONTagSegments[tag][1][2], omitempty |-> LaterOmitempty(tag),
          skip |-> FALSE]

\* C11: parseJSONTag returns, for every json tag, ('', false, false) on the
\* empty tag, ('', false, true) on "-", and otherwise the first comma segment
\* with surrounding whitespace trimmed as the name, omitempty exactly when a
\* later segment trimmed is 'omitempty', and skip false.
C11_ParseJSONTagReference ==
    Returned("parseJSONTag") => ret = ReferenceJSONTag(args[1])

\* the part of the reference the code follows: the same with the first segment
\* taken as it is written
C11_NameVerbatim ==
    Returned("parseJSONTag") =>
        ret = [ReferenceJSONTag(args[1]) EXCEPT
                 !.name = IF args[1] \in {"", "-"} THEN "" ELSE JSONTagSegments[args[1]][1][1]]

\* a tag whose first segment has surrounding whitespace has been parsed
C11_Padded ==
    /\ Returned("parseJSONTag")
    /\ args[1] = " n ,omitempty"
    /\ ret.name = " n "

(***************************************************************************)
(* C12: length constraints.                                                *)
(***************************************************************************)
\* the length tags as <<tag, key |-> N of its length tokens>>
LengthCases ==
    {<<"required,minLength=1,maxLength=100", [minLength |-> 1, maxLength |-> 100]>>,
     <<"minLength=3", [minLength |-> 3]>>,
     <<"maxLength=5", [maxLength |-> 5]>>,
     <<"minLength=1,maximum=9", [minLength |-> 1]>>}

\* the fragment m holds every key of want with its integer
HoldsIntegers(m, want) ==
    /\ m[1] = "map"
    /\ \A k \in DOMAIN want : k \in DOMAIN m[2] /\ m[2][k] = <<"int", want[k]>>

\* Generate has returned for the record whose one field A has the validate tag v
ReturnedForTagged(v) ==
    /\ Returned("Generate")
    /\ args[1] \in {ValueOf(StructOf(<<StructField("A", TRUE, t, "", v)>>)) :
                       t \in ConstrainedTypes}

\* the fragment of the property A of the returned document
FragmentOfA == ret.schema[2][PropProperties][2]["A"]

\* C12: a validation token minLength=N or maxLength=N, N an integer literal,
\* puts the key 'minLength' (resp. 'maxLength') with the integer N into the
\* constraints parseValidationTag returns and into the fragment of the field
\* that carries it in the document Generate returns.
C12_LengthConstraints ==
    \A c \in LengthCases :
       /\ (Returned("parseValidationTag") /\ args[1] = c[1]) => HoldsIntegers(ret, c[2])
       /\ ReturnedForTagged(c[1]) => HoldsIntegers(FragmentOfA, c[2])

(***************************************************************************)
(* C13: format constraints.                                                *)
(***************************************************************************)
\* the formats the documentation lists
DocumentedFormats ==
    {"date-time", "time", "date", "duration", "email", "hostname", "ipv4", "ipv6", "uuid"}

\* the fragment of each field type without constraints
BaseShape(t) ==
    CASE t = StringType -> [type |-> <<"string", "string">>]
      [] t = PtrTo(StringType) -> [type |-> <<"string", "string">>]
      [] t = BasicType("Int") -> [type |-> <<"string", "integer">>]
      [] t = BasicType("Float64") -> [type |-> <<"string", "number">>]
      [] t = SliceOf(StringType) ->
            [type |-> <<"string", "array">>,
             items |-> <<"map", [type |-> <<"string", "string">>]>>]
      [] t = EmptyStruct ->
            [type |-> <<"string", "object">>, properties |-> <<"map", <<>> >>,
             additionalProperties |-> <<"bool", FALSE>>]

\* the type of the one field A of the record Generate was called with
TypeOfA == FieldsOf(args[1][2])[1].Type

\* the constraints of a tag with one format token written v[1], trimmed v[2]
FormatOf(v) ==
    IF v[2] \in DocumentedFormats THEN [format |-> <<"string", v[2]>>] ELSE <<>>

\* C13: for a validation token format=V the constraints, and the fragment of
\* the field, hold the key 'format' with the value V trimmed exactly when V
\* trimmed is one of date-time, time, date, duration, email, hostname, ipv4,
\* ipv6, uuid; for any other V the token emits no key, Generate returns
\* without error and the other keys of the fragment are what they are
\* without the token.
C13_FormatValues ==
    \A v \in FormatValues :
       /\ (Returned("parseValidationTag") /\ args[1] = "format=" \o v[1]) =>
             ret = <<"map", FormatOf(v)>>
       /\ (Returned("parseValidationTag") /\ args[1] = "min=1,format=" \o v[1]) =>
             ret = <<"map", FormatOf(v) @@ [minimum |-> <<"float64", 1, 0>>]>>
       /\ ReturnedForTagged("format=" \o v[1]) =>
             /\ ret.err = NoError
             /\ FragmentOfA = <<"map", FormatOf(v) @@ BaseShape(TypeOfA)>>
       /\ ReturnedForTagged("min=1,format=" \o v[1]) =>
             /\ ret.err = NoError
             /\ FragmentOfA = <<"map", FormatOf(v) @@ [minimum |-> <<"float64", 1, 0>>]
                                         @@ BaseShape(TypeOfA)>>

\* a listed format written with surrounding blanks was kept, trimmed
C13_Witness ==
    /\ ReturnedForTagged("min=1,format= email ")
    /\ TypeOfA = StringType
    /\ FragmentOfA = <<"map", [type |-> <<"string", "string">>,
                               minimum |-> <<"float64", 1, 0>>,
                               format |-> <<"string", "email">>]>>

\* an unlisted format was dropped, the minimum beside it kept
C13_WitnessDropped ==
    /\ ReturnedForTagged("min=1,format=bogus")
    /\ TypeOfA = BasicType("Int")
    /\ ret.err = NoError
    /\ FragmentOfA = <<"map", [type |-> <<"string", "integer">>,
                               minimum |-> <<"float64", 1, 0>>]>>

(***************************************************************************)
(* C14: key=value tokens.                                                  *)
(***************************************************************************)
\* C14: parseValidationTag splits a token that holds '=' on its first '='
\* only, the key being the trimmed text before it and the value the whole
\* trimmed text after it: a pattern token stores that text as the 'pattern'
\* value with every later '=' kept; a tag whose tokens hold no '=' (the
\* literal 'required' among them) gives no key.
C14_FirstEquals ==
    Returned("parseValidationTag") =>
       /\ \A c \in PatternCases :
             args[1] = c[1] => ret = <<"map", [pattern |-> <<"string", c[2]>>]>>
       /\ args[1] \in NoEqualsTags => ret = <<"map", <<>> >>

\* a pattern with two later '=' characters was stored whole
C14_Witness ==
    /\ Returned("parseValidationTag")
    /\ args[1] = "pattern=^k=v=w$"
    /\ ret = <<"map", [pattern |-> <<"string", "^k=v=w$">>]>>

(***************************************************************************)
(* C15: leniency.                                                          *)
(***************************************************************************)
\* C15: once the root is accepted Generate returns a document and no error,
\* whatever tags the fields carry and whatever kinds lie below; a token with
\* an unknown key, an unparseable number or no '=' adds no key: the
\* constraints are those of the well-formed tokens, and the fragment of the
\* field is its base shape with exactly these constraints added.
C15_Lenient ==
    /\ (Returned("Generate") /\ ~Rejected(args[1])) =>
          ret.err = NoError /\ ret.schema[1] = "map"
    /\ \A c \in LenientCases :
          /\ (Returned("parseValidationTag") /\ args[1] = c[1]) => ret = <<"map", c[2]>>
          /\ ReturnedForTagged(c[1]) =>
                FragmentOfA = <<"map", c[2] @@ BaseShape(TypeOfA)>>
    /\ \A v \in NoEqualsTags :
          ReturnedForTagged(v) => FragmentOfA = <<"map", BaseShape(TypeOfA)>>

\* of four tokens - a minimum, an unknown key, an unparseable maximum and a
\* bare word - only the minimum reached the fragment of an integer field
C15_Witness ==
    /\ ReturnedForTagged("minimum=1,foo=2,maximum=x,bar")
    /\ TypeOfA = BasicType("Int")
    /\ ret.err = NoError
    /\ FragmentOfA = <<"map", [type |-> <<"string", "integer">>,
                               minimum |-> <<"float64", 1, 0>>]>>

\* a record with a field of a kind without a schema type was accepted
C15_WitnessKinds ==
    /\ Returned("Generate")
    /\ args[1] = ValueOf(StructOf(<<StructField("A", TRUE, SliceOf(BasicType("Chan")), "", "")>>))
    /\ ret.err = NoError

(***************************************************************************)
(* C16: determinism.                                                       *)
(***************************************************************************)
\* a later call of Generate has returned
ReturnedAgain == Returned("Generate") /\ prev # NoResult

\* C16: a later call of Generate on a value of the same type returns what the
\* earlier call returned - the same error, the same document with the same
\* keys, values and 'required' order at every level - whatever order the two
\* calls merged the entries of each constraint map in.
C16_Deterministic == ReturnedAgain => prev = <<"returned", ret>>

\* the two calls have returned for a field whose constraint map has three entries
C16_Witness ==
    /\ ReturnedAgain
    /\ args[1] = ValueOf(StructOf(<<StructField("A", TRUE, BasicType("Float64"), "",
                    "multipleOf=0.5,exclusiveMinimum=0,exclusiveMaximum=100")>>))
    /\ prev = <<"returned", ret>>
    /\ FragmentOfA = <<"map", [type |-> <<"string", "number">>,
                               multipleOf |-> <<"float64", 5, 1>>,
                               exclusiveMinimum |-> <<"float64", 0, 0>>,
                               exclusiveMaximum |-> <<"float64", 100, 0>>]>>

(***************************************************************************)
(* C17: termination and recursion depth.                                   *)
(***************************************************************************)
Max(S) == CHOOSE x \in S : \A y \in S : y <= x

RECURSIVE NamesIn(_)
\* the declared types t mentions, through fields, pointers, elements, keys and values
NamesIn(t) ==
    CASE t[1] = "Named" -> {t[2]}
      [] t[1] \in {"Ptr", "Slice", "Array"} -> NamesIn(t[2])
      [] t[1] = "Map" -> NamesIn(t[2]) \cup NamesIn(t[3])
      [] t[1] = "Struct" -> UNION {NamesIn(t[2][i].Type) : i \in 1..Len(t[2])}
      [] OTHER -> {}

RECURSIVE ReachedIn(_, _)
\* the declared types reached from those of S in up to k steps of 'mentions'
ReachedIn(S, k) ==
    IF k = 0 THEN S
    ELSE ReachedIn(S \cup UNION {NamesIn(TypeDecls[n]) : n \in S}, k - 1)

\* the declared types the type t reaches
Reached(t) == ReachedIn(NamesIn(t), Cardinality(DOMAIN TypeDecls))

\* no record that t reaches reaches itself
Acyclic(t) == \A n \in Reached(t) : n \notin Reached(TypeDecls[n])

\* the declared records that reach themselves through exported fields that are
\* not skipped, by way of pointers, elements and values of string-keyed maps
FollowedCycles == {"Node", "Tree", "Graph", "Ping", "Pong"}

RECURSIVE NestingDepth(_)
\* the number of types on the longest path of the type graph of an acyclic t
NestingDepth(t) ==
    CASE t[1] = "Named" -> NestingDepth(TypeDecls[t[2]])
      [] t[1] \in {"Ptr", "Slice", "Array"} -> 1 + NestingDepth(t[2])
      [] t[1] = "Map" -> 1 + Max({NestingDepth(t[2]), NestingDepth(t[3])})
      [] t[1] = "Struct" -> 1 + Max({0} \cup {NestingDepth(t[2][i].Type) : i \in 1..Len(t[2])})
      [] OTHER -> 1

\* the type of the root, a pointer and a name looked through
RootRecord == 
    LET t == args[1][2]
        u == IF t[1] = "Ptr" THEN t[2] ELSE t
    IN  IF u[1] = "Named" THEN TypeDecls[u[2]] ELSE u

\* Generate is called with a record or a pointer to a record
AcceptedRoot == args[1] # NilValue /\ RootRecord[1] = "Struct"

AcyclicRoot == AcceptedRoot /\ Acyclic(args[1][2])

\* the root is, or points to, a record of FollowedCycles
CycleRoot ==
    /\ args[1] # NilValue
    /\ LET t == args[1][2]
           u == IF t[1] = "Ptr" THEN t[2] ELSE t
       IN  u[1] = "Named" /\ u[2] \in FollowedCycles

\* the recursion is no deeper than the type graph of an acyclic root
DepthBounded == AcyclicRoot => Len(stack) <= NestingDepth(args[1][2])

\* the result of the step-by-step call is that of Generate taken as a whole
SameAsGenerate ==
    (pc = "done" /\ args[1] # NilValue /\ NamesIn(args[1][2]) = {}) =>
        \A o \in RangeOrders : ret = Generate(args[1], o)

ReturnedDocument == pc = "done" /\ ret.err = NoError /\ ret.schema[1] = "map"

\* C17: for every accepted root whose type graph is acyclic, Generate
\* returns a document, and the activations of generateSchema on the stack
\* are never more than the types on the longest path of the type graph;
\* nothing guards against cycles: for a record that reaches itself through
\* fields the recursion follows, Generate never returns and the recursion
\* grows until the stack is exhausted.
C17_TerminatesIfAcyclic ==
    /\ [](DepthBounded /\ SameAsGenerate)
    /\ (AcyclicRoot => <>ReturnedDocument)
    /\ [](CycleRoot => pc # "done")
    /\ (CycleRoot => <>(pc = "overflow"))

\* the recursion has reached the full depth of a record in a record
C17_Witness ==
    /\ pc = "run"
    /\ args[1] = ValueOf(StructOf(<<StructField("A", TRUE,
                    StructOf(<<StructField("A", TRUE, StringType, "", "")>>), "", "")>>))
    /\ Len(stack) = 3
    /\ NestingDepth(args[1][2]) = 3

\* a record that reaches itself only through fields the loop passes over, and
\* through a map whose key is no string, was returned for
C17_WitnessHidden ==
    /\ pc = "done" /\ args[1] = ValueOf(Named("Hidden"))
    /\ ~Acyclic(args[1][2])
    /\ ret.err = NoError

\* the recursion on a list node ran into the stack limit
C17_WitnessOverflow ==
    /\ pc = "overflow" /\ args[1] = ValueOf(PtrTo(Named("Node")))
    /\ Len(stack) = StackLimit

(***************************************************************************)
(* C18: the 'required' list against 'properties'.                          *)
(***************************************************************************)
\* no name stands twice in the list q
Distinct(q) == \A i, j \in 1..Len(q) : i # j => q[i] # q[j]

\* C18: in every object schema of a returned document the 'required' list
\* holds no name twice and has at most as many entries as 'properties' has
\* keys, also when two exported non-skipped fields resolve to one name.
C18_RequiredDistinct ==
    Documented =>
       \A p \in ReturnedRecords :
          /\ Distinct(RequiredList(p[2]))
          /\ Len(RequiredList(p[2])) <= Cardinality(PropertyNames(p[2]))

\* away from records with two fields of one resolved name the law holds
C18_UnlessNamesCollide ==
    Documented =>
       \A p \in ReturnedRecords :
          (\A i, j \in 1..Len(FieldsOf(p[1])) :
              (i # j /\ Contributes(FieldsOf(p[1])[i]) /\ Contributes(FieldsOf(p[1])[j]))
                 => ResolvedName(FieldsOf(p[1])[i]) # ResolvedName(FieldsOf(p[1])[j]))
          => /\ Distinct(RequiredList(p[2]))
             /\ Len(RequiredList(p[2])) <= Cardinality(PropertyNames(p[2]))

\* two required fields resolving to the name n gave the list n, n beside one property
C18_Repeated ==
    /\ Returned("Generate") /\ CalledWithRecord
    /\ RequiredList(ret.schema) = <<"n", "n">>
    /\ PropertyNames(ret.schema) = {"n"}

=============================================================================
